---- MODULE Spec2Model ----
(***************************************************************************)
(* Model of src/request/request.rs: the request decoder (decode), the raw  *)
(* request view (RawRequest) and the body reader (BodyReader) of one HTTP  *)
(* connection.                                                             *)
(*                                                                         *)
(* A byte is a one-character string; "\r" and "\n" are CR and LF.          *)
(* A buffer is a sequence of bytes.  req_buf is the unread                 *)
(* region of the connection's BytesMut; advancing drops bytes from its     *)
(* front and is counted in rd_off.                                         *)
(***************************************************************************)
EXTENDS Integers, Sequences, FiniteSets, TLC

(***************************************************************************)
(* Bounds of the model.                                                    *)
(***************************************************************************)
\* largest Content-Length / number of body bytes the peer sends
MaxBody == 3
\* largest buf.len() a caller passes to BodyReader::read
MaxReadLen == 2
\* total number of bytes the caller discards through BufRead::consume
MaxConsume == 1
\* the socket-read counter of the reader saturates here
MaxSockReads == 2
\* bytes of a following (pipelined) request the peer has sent behind the body
MaxTail == 2
\* most bytes one socket read of the connection loop appends (any split of the
\* wire is still reached, by several reads between two decode calls)
MaxFill == 2
MaxPipeBody == 2
\* usize::MAX of the model's machine word (TLC integers are 32 bits wide, so
\* the word is 30 bits; every length of the model is far below it)
UsizeMax == 1073741823

(***************************************************************************)
(* Program constants.                                                      *)
(***************************************************************************)
MAX_HEADERS == 16

(***************************************************************************)
(* Bytes and the byte classes of the HTTP/1.x grammar used by httparse.    *)
(***************************************************************************)
CR == "\r"
LF == "\n"
SP == " "
HT == "\t"

UpperSeq == <<"A","B","C","D","E","F","G","H","I","J","K","L","M",
              "N","O","P","Q","R","S","T","U","V","W","X","Y","Z">>
LowerSeq == <<"a","b","c","d","e","f","g","h","i","j","k","l","m",
              "n","o","p","q","r","s","t","u","v","w","x","y","z">>
Upper == {UpperSeq[i] : i \in 1..26}
Lower == {LowerSeq[i] : i \in 1..26}
Digit == {"0","1","2","3","4","5","6","7","8","9"}
\* RFC 7230 tchar: the bytes of a method or of a header name
Tchar == Upper \cup Lower \cup Digit \cup
         {"!","#","$","%","&","*","+","-",".","^","_","|","~"}
\* visible ASCII: the bytes of a request target
UriTok == Tchar \cup {"/",":","?","=","(",")",",",";","<",">","@","[","]","{","}"}
\* obs-text: a byte above 0x7F; "xFF" is the byte 0xFF, which occurs in no
\* UTF-8 text
ObsText == {"xFF"}
\* the bytes of a header value: visible ASCII, space, tab and obs-text
ValueTok == UriTok \cup {SP, HT} \cup ObsText

\* std::str::from_utf8(v).is_ok(), for the bytes of the model
IsUtf8(v) == \A i \in 1..Len(v) : v[i] \notin ObsText

\* u8::to_ascii_lowercase
ToLower(c) ==
    IF c \in Upper THEN LowerSeq[CHOOSE i \in 1..26 : UpperSeq[i] = c] ELSE c

\* [u8]::eq_ignore_ascii_case / str::eq_ignore_ascii_case
EqIgnoreAsciiCase(a, b) ==
    /\ Len(a) = Len(b)
    /\ \A i \in 1..Len(a) : ToLower(a[i]) = ToLower(b[i])

Min(a, b) == IF a <= b THEN a ELSE b

\* the bytes of s from position p (1-based) up to position q, inclusive
Slice(s, p, q) == IF q < p THEN <<>> ELSE SubSeq(s, p, q)

\* Buf::advance(n): the unread region without its first n bytes
Advance(s, n) == Slice(s, n + 1, Len(s))

\* first position >= p of b whose byte is not in Class, Len(b)+1 if none
RECURSIVE FirstNot(_, _, _)
FirstNot(b, p, Class) ==
    IF p > Len(b) \/ b[p] \notin Class THEN p ELSE FirstNot(b, p + 1, Class)

(***************************************************************************)
(* httparse::Request::parse_with_uninit_headers, as decode calls it        *)
(* (request.rs line 185).  A result is a record:                           *)
(*   st   "Complete" | "Partial" | "Err"                                   *)
(*   err  the httparse::Error of an "Err" result, "" otherwise             *)
(*   len  on Complete, the number of bytes of the frame                    *)
(*   method, path, version, headers   the parsed request (on Complete)     *)
(* The sub-parsers return [st, err, pos, val]: pos is the position of the  *)
(* next unparsed byte, val the parsed value.                               *)
(***************************************************************************)
NoHeaders == <<>>
Sub(st, err, pos, val) == [st |-> st, err |-> err, pos |-> pos, val |-> val]
SubPartial == Sub("Partial", "", 0, <<>>)
SubErr(e) == Sub("Err", e, 0, <<>>)
SubOk(pos, val) == Sub("Complete", "", pos, val)

\* skip_empty_lines: CRLF or LF before the request line are skipped
RECURSIVE SkipEmptyLines(_, _)
SkipEmptyLines(b, p) ==
    IF p > Len(b) THEN SubPartial
    ELSE IF b[p] = CR THEN
        IF p + 1 > Len(b) THEN SubPartial
        ELSE IF b[p + 1] = LF THEN SkipEmptyLines(b, p + 2)
        ELSE SubErr("NewLine")
    ELSE IF b[p] = LF THEN SkipEmptyLines(b, p + 1)
    ELSE SubOk(p, <<>>)

\* parse_method / parse_token: token bytes up to a space
ParseMethod(b, p) ==
    IF p > Len(b) THEN SubPartial
    ELSE IF b[p] \notin Tchar THEN SubErr("Token")
    ELSE LET q == FirstNot(b, p + 1, Tchar)
         IN  IF q > Len(b) THEN SubPartial
             ELSE IF b[q] = SP THEN SubOk(q + 1, Slice(b, p, q - 1))
             ELSE SubErr("Token")

\* parse_uri: at least one visible byte, up to a space
ParseUri(b, p) ==
    LET q == FirstNot(b, p, UriTok)
    IN  IF q > Len(b) THEN SubPartial
        ELSE IF b[q] = SP THEN
            IF q = p THEN SubErr("Token") ELSE SubOk(q + 1, Slice(b, p, q - 1))
        ELSE SubErr("Token")

HttpPrefix == <<"H","T","T","P","/","1",".">>

\* parse_version: "HTTP/1.0" or "HTTP/1.1"; with fewer than 8 bytes left the
\* bytes present are compared with "HTTP/1." before Partial is reported
ParseVersion(b, p) ==
    IF Len(b) - p + 1 >= 8 THEN
        IF Slice(b, p, p + 6) # HttpPrefix THEN SubErr("Version")
        ELSE IF b[p + 7] = "0" THEN SubOk(p + 8, 0)
        ELSE IF b[p + 7] = "1" THEN SubOk(p + 8, 1)
        ELSE SubErr("Version")
    ELSE IF \E i \in 1..Min(7, Len(b) - p + 1) : b[p + i - 1] # HttpPrefix[i]
         THEN SubErr("Version")
         ELSE SubPartial

\* newline!: CRLF or LF ends the request line
ParseNewline(b, p) ==
    IF p > Len(b) THEN SubPartial
    ELSE IF b[p] = CR THEN
        IF p + 1 > Len(b) THEN SubPartial
        ELSE IF b[p + 1] = LF THEN SubOk(p + 2, <<>>)
        ELSE SubErr("NewLine")
    ELSE IF b[p] = LF THEN SubOk(p + 1, <<>>)
    ELSE SubErr("NewLine")

\* a header value without its trailing spaces and tabs
RECURSIVE TrimRight(_)
TrimRight(v) ==
    IF v # <<>> /\ v[Len(v)] \in {SP, HT} THEN TrimRight(Slice(v, 1, Len(v) - 1))
    ELSE v

\* the value of one header line, from the byte after the colon: optional
\* spaces and tabs, the value, then CRLF or LF.  val is the trimmed value.
ParseHeaderValue(b, p) ==
    LET r == FirstNot(b, p, {SP, HT})
        EndOfLine(e, val) ==
            IF b[e] = CR THEN
                IF e + 1 > Len(b) THEN SubPartial
                ELSE IF b[e + 1] = LF THEN SubOk(e + 2, val)
                ELSE SubErr("HeaderValue")
            ELSE IF b[e] = LF THEN SubOk(e + 1, val)
            ELSE SubErr("HeaderValue")
    IN  IF r > Len(b) THEN SubPartial
        ELSE IF b[r] \in ValueTok THEN
            LET e == FirstNot(b, r, ValueTok)
            IN  IF e > Len(b) THEN SubPartial
                ELSE EndOfLine(e, TrimRight(Slice(b, r, e - 1)))
        ELSE EndOfLine(r, <<>>)

\* mutant of SlotFree: one header too many fits
SlotFreeOffByOne(count) == count <= MAX_HEADERS

\* a free header slot remains in the caller [MaybeUninit<Header>; MAX_HEADERS]
SlotFree(count) == count < MAX_HEADERS

\* parse_headers_iter_uninit: header lines up to the empty line.  The slot for
\* a header is taken before its name is parsed (early = TRUE, httparse up to
\* 1.7) or after its value is parsed (early = FALSE, httparse 1.8 and later).
RECURSIVE ParseHeaders(_, _, _, _)
ParseHeaders(b, p, hdrs, early) ==
    IF p > Len(b) THEN SubPartial
    ELSE IF b[p] = CR THEN
        IF p + 1 > Len(b) THEN SubPartial
        ELSE IF b[p + 1] = LF THEN SubOk(p + 2, hdrs)
        ELSE SubErr("NewLine")
    ELSE IF b[p] = LF THEN SubOk(p + 1, hdrs)
    ELSE IF b[p] \notin Tchar THEN SubErr("HeaderName")
    ELSE IF early /\ ~SlotFree(Len(hdrs)) THEN SubErr("TooManyHeaders")
    ELSE LET q == FirstNot(b, p, Tchar)
         IN  IF q > Len(b) THEN SubPartial
             ELSE IF b[q] # ":" THEN SubErr("HeaderName")
             ELSE LET v == ParseHeaderValue(b, q + 1)
                  IN  IF v.st # "Complete" THEN v
                      ELSE IF ~SlotFree(Len(hdrs)) THEN SubErr("TooManyHeaders")
                      ELSE ParseHeaders(b, v.pos,
                               Append(hdrs, [name |-> Slice(b, p, q - 1),
                                             value |-> v.val]),
                               early)

Status(st, err, len, method, path, version, headers) ==
    [st |-> st, err |-> err, len |-> len, method |-> method, path |-> path,
     version |-> version, headers |-> headers]
StatusPartial == Status("Partial", "", 0, <<>>, <<>>, 0, NoHeaders)
StatusErr(e) == Status("Err", e, 0, <<>>, <<>>, 0, NoHeaders)
NoStatus == Status("None", "", 0, <<>>, <<>>, 0, NoHeaders)

Lift(r) == IF r.st = "Err" THEN StatusErr(r.err) ELSE StatusPartial

Parse(b, early) ==
    LET s == SkipEmptyLines(b, 1) IN
    IF s.st # "Complete" THEN Lift(s) ELSE
    LET m == ParseMethod(b, s.pos) IN
    IF m.st # "Complete" THEN Lift(m) ELSE
    LET u == ParseUri(b, m.pos) IN
    IF u.st # "Complete" THEN Lift(u) ELSE
    LET v == ParseVersion(b, u.pos) IN
    IF v.st # "Complete" THEN Lift(v) ELSE
    LET n == ParseNewline(b, v.pos) IN
    IF n.st # "Complete" THEN Lift(n) ELSE
    LET h == ParseHeaders(b, n.pos, NoHeaders, early) IN
    IF h.st # "Complete" THEN Lift(h) ELSE
    Status("Complete", "", h.pos - 1, m.val, u.val, v.val, h.val)

(***************************************************************************)
(* RawRequest::content_length (lines 158-167).                             *)
(***************************************************************************)
DigitSeq == <<"0","1","2","3","4","5","6","7","8","9">>
DigitVal(c) == (CHOOSE i \in 1..10 : DigitSeq[i] = c) - 1

\* checked accumulation of decimal digits, -1 on overflow of usize
RECURSIVE DecFold(_, _, _)
DecFold(d, i, acc) ==
    IF i > Len(d) THEN acc
    ELSE IF acc > (UsizeMax - DigitVal(d[i])) \div 10 THEN -1
    ELSE DecFold(d, i + 1, acc * 10 + DigitVal(d[i]))

\* from_utf8(v).unwrap().parse::<usize>(): an optional "+", then one or more
\* digits; -1 is the Err of either step
ParseUsize(v) ==
    LET d == IF v # <<>> /\ v[1] = "+" THEN Tail(v) ELSE v
    IN  IF d = <<>> \/ \E i \in 1..Len(d) : d[i] \notin Digit THEN -1
        ELSE DecFold(d, 1, 0)

ContentLengthName == <<"c","o","n","t","e","n","t","-","l","e","n","g","t","h">>

\* mutant of FirstContentLength: the loop has no break, the last header wins
LastContentLength(headers) ==
    LET S == {i \in 1..Len(headers) :
                 EqIgnoreAsciiCase(headers[i].name, ContentLengthName)}
    IN  IF S = {} THEN 0 ELSE CHOOSE i \in S : \A j \in S : i >= j

\* position of the first header named Content-Length, 0 if there is none
FirstContentLength(headers) ==
    LET S == {i \in 1..Len(headers) :
                 EqIgnoreAsciiCase(headers[i].name, ContentLengthName)}
    IN  IF S = {} THEN 0 ELSE CHOOSE i \in S : \A j \in S : i <= j

\* content_length(): usize::MAX without the header, the parsed value of the
\* first one otherwise; -1 stands for the panic of unwrap() on a bad value
ContentLength(headers) ==
    LET i == FirstContentLength(headers)
    IN  IF i = 0 THEN UsizeMax ELSE ParseUsize(headers[i].value)

(***************************************************************************)
(* The bytes a peer sends: one request frame, its body, and possibly the   *)
(* first bytes of a following (pipelined) request.                         *)
(***************************************************************************)
ReqLine == <<"G","E","T",SP,"/",SP,"H","T","T","P","/","1",".","1",CR,LF>>
Filler == <<"X",":","y",CR,LF>>
FillerHeader == [name |-> <<"X">>, value |-> <<"y">>]
CLName == <<"C","o","n","t","e","n","t","-","L","e","n","g","t","h">>
BadLine == <<"B","A","D",SP,"R","E","Q","U","E","S","T",SP,
             "L","I","N","E",CR,LF,CR,LF>>
NextReq == <<"H","E","A","D",SP,"/","b",SP,"H","T","T","P","/","1",".","0",LF,LF>>

RECURSIVE Decimal(_)
Decimal(n) ==
    IF n < 10 THEN <<DigitSeq[n + 1]>>
    ELSE Decimal(n \div 10) \o <<DigitSeq[(n % 10) + 1]>>

RECURSIVE Fillers(_)
Fillers(k) == IF k = 0 THEN <<>> ELSE Filler \o Fillers(k - 1)

Header(name, value) == [name |-> name, value |-> value]
\* a header line as sent: name, colon, space, value, CRLF
Render(h) == h.name \o <<":", SP>> \o h.value \o <<CR, LF>>
RECURSIVE RenderAll(_)
RenderAll(hs) == IF hs = <<>> THEN <<>> ELSE Render(Head(hs)) \o RenderAll(Tail(hs))

ConnectionName == <<"C","o","n","n","e","c","t","i","o","n">>
LowerName(name) == [i \in 1..Len(name) |-> ToLower(name[i])]
KeepAliveValue == <<"k","e","e","p","-","a","l","i","v","e">>
KeepAliveMixed == <<"K","e","e","p","-","A","l","i","v","e">>
CloseValue == <<"c","l","o","s","e">>

\* the Connection header of a scenario: conn is "none", "ka" (keep-alive),
\* "KA" (Keep-Alive), "close", "bin" (keep-alive followed by the byte 0xFF)
\* or "lname" (keep-alive under the lower-case name)
ConnHeaders(s) ==
    CASE s.conn = "ka" -> <<Header(ConnectionName, KeepAliveValue)>>
      [] s.conn = "KA" -> <<Header(ConnectionName, KeepAliveMixed)>>
      [] s.conn = "close" -> <<Header(ConnectionName, CloseValue)>>
      [] s.conn = "bin" -> <<Header(ConnectionName, KeepAliveValue \o <<"xFF">>)>>
      [] s.conn = "lname" -> <<Header(LowerName(ConnectionName), KeepAliveValue)>>
      [] OTHER -> <<>>

\* the Content-Length headers of a scenario with cl: clv is "std", "lower"
\* (lower-case name), "dup" (a second header declaring n + 1 follows), "bad"
\* (the value x), "neg" (the value -1) or "bin" (the value is the byte 0xFF)
CLHeaders(s) ==
    IF ~s.cl THEN <<>>
    ELSE CASE s.clv = "lower" -> <<Header(LowerName(CLName), Decimal(s.n))>>
           [] s.clv = "dup" -> <<Header(CLName, Decimal(s.n)),
                                 Header(LowerName(CLName), Decimal(s.n + 1))>>
           [] s.clv = "bad" -> <<Header(CLName, <<"x">>)>>
           [] s.clv = "neg" -> <<Header(CLName, <<"-", "1">>)>>
           [] s.clv = "bin" -> <<Header(CLName, <<"xFF">>)>>
           [] OTHER -> <<Header(CLName, Decimal(s.n))>>

\* the i-th body byte: "p", "q", "r", ...
BodyBytes(n) == [i \in 1..n |-> LowerSeq[15 + i]]

\* A scenario: lead (an empty line precedes the request line), nfill (filler
\* headers), conn (the Connection header that follows them), cl and clv (the
\* Content-Length headers behind it), n (declared body length), sent (body
\* bytes the peer sends before it sends the tail or closes), tail (bytes of a
\* second request sent behind the body), bad (the frame is the malformed
\* line instead).
Frame(s) ==
    IF s.bad THEN BadLine
    ELSE (IF s.lead THEN <<CR, LF>> ELSE <<>>) \o ReqLine \o Fillers(s.nfill)
         \o RenderAll(ConnHeaders(s)) \o RenderAll(CLHeaders(s)) \o <<CR, LF>>
Wire(s) ==
    Frame(s) \o Slice(BodyBytes(s.n), 1, s.sent) \o Slice(NextReq, 1, s.tail)
NumHeaders(s) == s.nfill + Len(ConnHeaders(s)) + Len(CLHeaders(s))

Scenario(bad, lead, nfill, cl, n, tail) ==
    [bad |-> bad, lead |-> lead, nfill |-> nfill, cl |-> cl, n |-> n,
     tail |-> tail, conn |-> "none", clv |-> "std", sent |-> n]

Scenarios ==
    {Scenario(FALSE, FALSE, 0, c, n, t) :
        c \in BOOLEAN, n \in 0..MaxBody, t \in {0, MaxTail}}
    \cup {Scenario(FALSE, FALSE, f, c, 1, 0) :
        f \in {1} \cup (MAX_HEADERS - 1)..(MAX_HEADERS + 1), c \in BOOLEAN}
    \cup {Scenario(FALSE, TRUE, 0, TRUE, 1, 0),
          Scenario(TRUE, FALSE, 0, FALSE, 0, 0)}

\* What a BodyReader call returned: Ok(n), an I/O error, a panic; RetNone
\* when no call has returned a value, RetPending while read is blocked.
Ok(n) == [kind |-> "ok", n |-> n]
RetNone == [kind |-> "none", n |-> 0]
RetPending == [kind |-> "pending", n |-> 0]
RetErr == [kind |-> "err", n |-> 0]
RetPanic == [kind |-> "panic", n |-> 0]
RetBool(b) == [kind |-> "bool", n |-> IF b THEN 1 ELSE 0]

(***************************************************************************)
(* State.                                                                  *)
(***************************************************************************)
VARIABLES
    sc,              \* the scenario: what the peer sends (fixed)
    early,           \* the httparse variant linked in (fixed)
    overflow_checks, \* the build profile: debug (TRUE) or release (fixed)
    stream,          \* TcpStream: the bytes sent and not yet read
    req_buf,         \* BytesMut: the unread region
    rd_off,          \* BytesMut: how far the read offset has advanced
    pc,              \* "conn", "request", "body", "read", "closed", "panic"
    status,          \* the result of the last decode; on Complete, RawRequest.req
    body_limit,      \* BodyReader.body_limit
    total_read,      \* BodyReader.total_read
    buf_len,         \* buf.len() of the read call in progress or last made
    ret,             \* what the last BodyReader call returned
    op,              \* the last operation
    delivered,       \* history: the bytes read calls have copied to the caller
    sock_reads,      \* history: socket reads made by the reader (saturating)
    pulled,          \* history: bytes the reader has taken off the socket
    k0,              \* history: Len(req_buf) when body() was called
    consumed,        \* history: bytes discarded through consume
    retried          \* history: decode has returned Incomplete on buffered bytes

vars == <<sc, early, overflow_checks, stream, req_buf, rd_off, pc, status,
          body_limit, total_read, buf_len, ret, op, delivered, sock_reads,
          pulled, k0, consumed, retried>>

fixed == <<sc, early, overflow_checks, retried>>
reader == <<body_limit, total_read, buf_len, ret, delivered, sock_reads,
            pulled, k0, consumed>>

\* the state of a connection on which the peer sends a scenario of S
InitOn(S) ==
    /\ sc \in S
    /\ early \in BOOLEAN
    /\ overflow_checks \in BOOLEAN
    /\ stream = Wire(sc)
    /\ req_buf = <<>>
    /\ rd_off = 0
    /\ pc = "conn"
    /\ status = NoStatus
    /\ body_limit = 0
    /\ total_read = 0
    /\ buf_len = 0
    /\ ret = RetNone
    /\ op = "init"
    /\ delivered = <<>>
    /\ sock_reads = 0
    /\ pulled = 0
    /\ k0 = 0
    /\ consumed = 0
    /\ retried = FALSE

Init == InitOn(Scenarios)

(***************************************************************************)
(* The connection loop (outside this file): a socket read appended to the  *)
(* buffer before decode is tried again.                                    *)
(***************************************************************************)
SocketFill ==
    /\ pc = "conn"
    /\ \E n \in 1..Min(MaxFill, Len(stream)) :
        /\ req_buf' = req_buf \o SubSeq(stream, 1, n)
        /\ stream' = Advance(stream, n)
    /\ op' = "fill"
    /\ UNCHANGED <<fixed, rd_off, pc, status, reader>>

(***************************************************************************)
(* decode (lines 176-205).                                                 *)
(***************************************************************************)
\* mutants of DecodeAdvance: the buffer is dropped on a malformed request;
\* the bytes of an incomplete request are taken; Complete takes all that is
\* buffered
DecodeAdvanceOnError(r) ==
    IF r.st = "Complete" THEN r.len
    ELSE IF r.st = "Err" THEN Len(req_buf) ELSE 0
DecodeAdvanceOnPartial(r) ==
    IF r.st = "Complete" THEN r.len
    ELSE IF r.st = "Partial" THEN Len(req_buf) ELSE 0
DecodeAdvanceWhole(r) == IF r.st = "Complete" THEN Len(req_buf) ELSE 0

\* lines 194-198: how far decode advances the buffer for a parse result
DecodeAdvance(r) == IF r.st = "Complete" THEN r.len ELSE 0

Decode ==
    /\ pc = "conn"
    /\ LET r == Parse(req_buf, early)
       IN  /\ status' = r
           /\ req_buf' = Advance(req_buf, DecodeAdvance(r))
           /\ rd_off' = rd_off + DecodeAdvance(r)
           /\ pc' = CASE r.st = "Complete" -> "request"
                      [] r.st = "Err" -> "closed"
                      [] OTHER -> "conn"
           /\ retried' = (retried \/ (r.st = "Partial" /\ req_buf # <<>>))
    /\ op' = "decode"
    /\ UNCHANGED <<sc, early, overflow_checks, stream, reader>>

(***************************************************************************)
(* RawRequest::body (lines 149-156): the view becomes a BodyReader.  A     *)
(* Content-Length value that does not parse panics in content_length().    *)
(***************************************************************************)
Body ==
    /\ pc = "request"
    /\ LET len == ContentLength(status.headers)
       IN  IF len = -1
           THEN /\ pc' = "panic"
                /\ UNCHANGED <<body_limit, total_read, k0>>
           ELSE /\ pc' = "body"
                /\ body_limit' = len
                /\ total_read' = 0
                /\ k0' = Len(req_buf)
    /\ op' = "body"
    /\ UNCHANGED <<fixed, stream, req_buf, rd_off, status, buf_len, ret,
                   delivered, sock_reads, pulled, consumed>>

(***************************************************************************)
(* BodyReader::read (lines 81-101).                                        *)
(***************************************************************************)
\* mutants of AtLimit: the comparison is strict; the check is missing
AtLimitOffByOne(total, limit) == total > limit
AtLimitForgotten(total, limit) == FALSE

\* line 82: the reader has reached its limit
AtLimit(total, limit) == total >= limit

\* usize subtraction of a release build: modulo 2^w
WrappingSub(a, b) == IF a >= b THEN a - b ELSE (UsizeMax + 1) - (b - a)

\* mutant of MinLen: the limit does not clip the copy
MinLenNoLimit(len, limit, total) == len

\* line 88: buf.len().min(self.body_limit - self.total_read)
MinLen(len, limit, total) == Min(len, WrappingSub(limit, total))

\* lines 87-92, the buffered branch of the loop, taken with the non-empty
\* unread region buf, total bytes counted and a caller buffer of len bytes:
\* the subtraction of line 88 panics in a build with overflow checks when
\* total exceeds the limit; otherwise n bytes are copied out and counted.
\* back is where the caller of read continues.
BufferedAt(buf, total, len, limit, back) ==
    IF overflow_checks /\ total > limit
    THEN /\ pc' = "panic"
         /\ ret' = RetPanic
         /\ req_buf' = buf
         /\ total_read' = total
         /\ UNCHANGED <<rd_off, delivered>>
    ELSE LET n == Min(MinLen(len, limit, total), Len(buf))
         IN  /\ pc' = back
             /\ ret' = Ok(n)
             /\ req_buf' = Advance(buf, n)
             /\ rd_off' = rd_off + n
             /\ total_read' = total + n
             /\ delivered' = delivered \o SubSeq(buf, 1, n)

Buffered(buf, total, len) == BufferedAt(buf, total, len, body_limit, "body")

\* A read call up to its return or up to its first socket read: pc = "read"
\* is the reader blocked in self.stream.read (line 97).
ReadCall ==
    /\ pc = "body"
    /\ \E len \in 0..MaxReadLen :
        /\ buf_len' = len
        /\ IF AtLimit(total_read, body_limit)
           THEN /\ ret' = Ok(0)
                /\ UNCHANGED <<pc, req_buf, rd_off, total_read, delivered>>
           ELSE IF req_buf # <<>>
           THEN Buffered(req_buf, total_read, len)
           ELSE /\ pc' = "read"
                /\ ret' = RetPending
                /\ UNCHANGED <<req_buf, rd_off, total_read, delivered>>
    /\ op' = "read"
    /\ UNCHANGED <<fixed, stream, status, body_limit, sock_reads, pulled, k0,
                   consumed>>

\* reserve_buf (http_server, outside this file) leaves some writable capacity;
\* the sizes a socket read into it may return with `pending` bytes on the
\* socket: 1..pending, or 0 once the peer has sent everything and closed.
ReadSizes(pending) == IF pending = 0 THEN {0} ELSE 1..pending

\* lines 94-99 and the next turn of the loop: the socket read returns n
\* bytes, they are counted and committed, and the loop continues.
StreamRead ==
    /\ pc = "read"
    /\ \E n \in ReadSizes(Len(stream)) :
        LET buf == req_buf \o SubSeq(stream, 1, n)
            total == total_read + n
        IN  /\ stream' = Advance(stream, n)
            /\ pulled' = pulled + n
            /\ IF buf # <<>>
               THEN Buffered(buf, total, buf_len)
               ELSE /\ req_buf' = buf
                    /\ total_read' = total
                    /\ UNCHANGED <<pc, ret, rd_off, delivered>>
    /\ sock_reads' = Min(sock_reads + 1, MaxSockReads)
    /\ op' = "stream_read"
    /\ UNCHANGED <<fixed, status, body_limit, buf_len, k0, consumed>>

\* line 97: the socket read fails and `?` returns the error to the caller
StreamError ==
    /\ pc = "read"
    /\ pc' = "body"
    /\ ret' = RetErr
    /\ sock_reads' = Min(sock_reads + 1, MaxSockReads)
    /\ op' = "stream_err"
    /\ UNCHANGED <<fixed, stream, req_buf, rd_off, status, body_limit,
                   total_read, buf_len, delivered, pulled, k0, consumed>>

(***************************************************************************)
(* BufRead for BodyReader (lines 104-112).                                 *)
(***************************************************************************)
\* fill_buf: the whole unread region is exposed; ret is its length
FillBuf ==
    /\ pc = "body"
    /\ ret' = Ok(Len(req_buf))
    /\ op' = "fill_buf"
    /\ UNCHANGED <<fixed, stream, req_buf, rd_off, pc, status, body_limit,
                   total_read, buf_len, delivered, sock_reads, pulled, k0,
                   consumed>>

\* consume(amt): the unread region loses its first amt bytes
Consume ==
    /\ pc = "body"
    /\ \E amt \in 1..Min(Len(req_buf), MaxConsume - consumed) :
        /\ req_buf' = Advance(req_buf, amt)
        /\ rd_off' = rd_off + amt
        /\ consumed' = consumed + amt
    /\ ret' = RetNone
    /\ op' = "consume"
    /\ UNCHANGED <<fixed, stream, pc, status, body_limit, total_read, buf_len,
                   delivered, sock_reads, pulled, k0>>

(***************************************************************************)
(* Request::keep_alive (lines 54-59): some header is named connection,     *)
(* ASCII case ignored, and its value is the text keep-alive, byte for byte.*)
(***************************************************************************)
IsKeepAlive(headers) ==
    \E i \in 1..Len(headers) :
        /\ EqIgnoreAsciiCase(headers[i].name, LowerName(ConnectionName))
        /\ IsUtf8(headers[i].value)
        /\ headers[i].value = KeepAliveValue

KeepAlive ==
    /\ pc = "request"
    /\ ret' = RetBool(IsKeepAlive(status.headers))
    /\ op' = "keep_alive"
    /\ UNCHANGED <<fixed, stream, req_buf, rd_off, pc, status, body_limit,
                   total_read, buf_len, delivered, sock_reads, pulled, k0,
                   consumed>>

(***************************************************************************)
(* Request::json_body (lines 37-40): serde_json::from_reader over          *)
(* self.body().  The decoder pulls its input with read calls of one byte.  *)
(* No byte a scenario puts behind a frame begins a JSON value, so the      *)
(* decoder fails on the first byte it gets, or on the end of input, and    *)
(* the call is over after its first read; the request and its reader are   *)
(* consumed by it (pc = "done").  One action covers the whole call, the    *)
(* socket read of that first read included; a socket read of 0 bytes       *)
(* leaves the call inside the loop of read (pc = "read").                  *)
(***************************************************************************)
JsonBody ==
    /\ pc = "request"
    /\ LET limit == ContentLength(status.headers)
       IN  IF limit = -1
           THEN /\ pc' = "panic"
                /\ UNCHANGED <<stream, req_buf, rd_off, reader>>
           ELSE /\ body_limit' = limit
                /\ k0' = Len(req_buf)
                /\ buf_len' = 1
                /\ IF AtLimit(0, limit)
                   THEN /\ pc' = "done"
                        /\ ret' = Ok(0)
                        /\ total_read' = 0
                        /\ UNCHANGED <<stream, req_buf, rd_off, delivered,
                                       sock_reads, pulled>>
                   ELSE IF req_buf # <<>>
                   THEN /\ BufferedAt(req_buf, 0, 1, limit, "done")
                        /\ UNCHANGED <<stream, sock_reads, pulled>>
                   ELSE /\ sock_reads' = Min(sock_reads + 1, MaxSockReads)
                        /\ \/ \E n \in ReadSizes(Len(stream)) :
                                /\ stream' = Advance(stream, n)
                                /\ pulled' = pulled + n
                                /\ IF n > 0
                                   THEN BufferedAt(SubSeq(stream, 1, n), n, 1,
                                                   limit, "done")
                                   ELSE /\ pc' = "read"
                                        /\ ret' = RetPending
                                        /\ total_read' = 0
                                        /\ UNCHANGED <<req_buf, rd_off,
                                                       delivered>>
                           \/ /\ pc' = "done"
                              /\ ret' = RetErr
                              /\ total_read' = 0
                              /\ UNCHANGED <<stream, req_buf, rd_off,
                                             delivered, pulled>>
                /\ UNCHANGED consumed
    /\ op' = "json_body"
    /\ UNCHANGED <<fixed, status>>

\* RawRequest::json_body (lines 138-143): the decoder runs over a Cursor on
\* the unread region of the buffer and fails as above; nothing is modified
RawJsonBody ==
    /\ pc = "request"
    /\ ret' = RetErr
    /\ op' = "raw_json_body"
    /\ UNCHANGED <<fixed, stream, req_buf, rd_off, pc, status, body_limit,
                   total_read, buf_len, delivered, sock_reads, pulled, k0,
                   consumed>>

Next ==
    \/ SocketFill
    \/ Decode
    \/ Body
    \/ ReadCall
    \/ StreamRead
    \/ StreamError
    \/ FillBuf
    \/ Consume

Spec == Init /\ [][Next]_vars

(***************************************************************************)
(* The same connection with requests whose Connection and Content-Length   *)
(* headers vary, and a handler that also asks keep_alive().                *)
(***************************************************************************)
HeaderScenario(conn, cl, clv, n) ==
    [Scenario(FALSE, FALSE, 0, cl, n, 0) EXCEPT !.conn = conn, !.clv = clv]

ScenariosHdr ==
    {HeaderScenario(c, TRUE, "std", 1) :
        c \in {"none", "ka", "KA", "close", "bin", "lname"}}
    \cup {HeaderScenario("ka", TRUE, v, 1) :
        v \in {"lower", "dup", "bad", "neg", "bin"}}
    \cup {HeaderScenario(c, FALSE, "std", 1) : c \in {"none", "close"}}

InitHdr == InitOn(ScenariosHdr)

NextHdr ==
    \/ Next
    \/ KeepAlive

SpecHdr == InitHdr /\ [][NextHdr]_vars

(***************************************************************************)
(* The same connection with a handler that may decode the body as JSON,    *)
(* through the facade or through the view.                                 *)
(***************************************************************************)
ScenariosJson ==
    {Scenario(FALSE, FALSE, 0, c, n, t) :
        c \in BOOLEAN, n \in 0..1, t \in {0, MaxTail}}

InitJson == InitOn(ScenariosJson)

NextJson ==
    \/ Next
    \/ JsonBody
    \/ RawJsonBody

SpecJson == InitJson /\ [][NextJson]_vars

(***************************************************************************)
(* The same connection with a peer that sends a whole second request       *)
(* behind the body of the first, or that closes before it has sent the     *)
(* whole body.                                                             *)
(***************************************************************************)
\* Content-Length n, of which the peer sends the first `sent` bytes
ShortBody(n, sent) ==
    [Scenario(FALSE, FALSE, 0, TRUE, n, 0) EXCEPT !.sent = sent]

ScenariosPipe ==
    {Scenario(FALSE, FALSE, 0, TRUE, n, Len(NextReq)) : n \in 0..MaxPipeBody}
    \cup UNION {{ShortBody(n, k) : k \in 0..(n - 1)} : n \in 1..MaxPipeBody}

InitPipe == InitOn(ScenariosPipe)

SpecPipe == InitPipe /\ [][Next]_vars

(***************************************************************************)
(* Vocabulary of the properties.                                           *)
(***************************************************************************)
\* the request declares Content-Length: N, with N = sc.n
HasContentLength == ~sc.bad /\ sc.cl
FrameLen == Len(Frame(sc))
\* bytes the connection has taken off the wire so far
Received == Len(Wire(sc)) - Len(stream)
\* a BodyReader exists (a panic of body() itself leaves op = "body")
ReaderLive == pc \in {"body", "read"} \/ (pc = "panic" /\ op # "body")
\* a read call has just returned v to the caller
ReadReturned(v) ==
    pc = "body" /\ op \in {"read", "stream_read"} /\ ret = Ok(v)

(***************************************************************************)
(* C1: with Content-Length N and only read calls with buffers of length    *)
(* > 0, whatever the split of the body between buffer and socket, the      *)
(* bytes delivered are the first N body bytes in order: never more than N, *)
(* no read call fails on the way, and a read reports end-of-stream (0)     *)
(* only once all N have been delivered.                                    *)
(***************************************************************************)
C1_DeliversExactlyN ==
    (HasContentLength /\ ReaderLive /\ consumed = 0) =>
        /\ Len(delivered) <= sc.n
        /\ delivered = SubSeq(BodyBytes(sc.n), 1, Min(Len(delivered), sc.n))
        /\ ret # RetPanic
        /\ (ReadReturned(0) /\ buf_len > 0) => delivered = BodyBytes(sc.n)

(***************************************************************************)
(* C2: total_read <= body_limit in every state of a Body Reader, so that   *)
(* body_limit - total_read never underflows.                               *)
(***************************************************************************)
C2_TotalReadWithinLimit ==
    ReaderLive => (total_read <= body_limit /\ ret # RetPanic)

(***************************************************************************)
(* C3: whenever no read call is in progress, total_read is the number of   *)
(* bytes the read calls have delivered to the caller.                      *)
(***************************************************************************)
C3_TotalReadIsDelivered ==
    pc = "body" => total_read = Len(delivered)

(***************************************************************************)
(* C4: if the buffer holds at least N body bytes when body() is called on  *)
(* a request with Content-Length N, no sequence of read calls makes the    *)
(* reader read from the socket.                                            *)
(***************************************************************************)
C4_NoSocketReadWhenBuffered ==
    (HasContentLength /\ ReaderLive /\ consumed = 0 /\ k0 >= sc.n) =>
        /\ pc # "read"
        /\ sock_reads = 0
        /\ pulled = 0

\* C4 witness: all N > 0 body bytes were buffered, reads have delivered them
\* and a further read has returned 0 while the socket still holds bytes
C4_Witness ==
    /\ HasContentLength /\ consumed = 0 /\ sc.n > 0 /\ k0 >= sc.n
    /\ delivered = BodyBytes(sc.n)
    /\ ReadReturned(0) /\ op = "read" /\ buf_len > 0
    /\ stream # <<>>
    /\ sock_reads = 0

(***************************************************************************)
(* C5: with k < N body bytes buffered at body(), the reader delivers those *)
(* k bytes before its first socket read, never takes more than N - k bytes *)
(* off the socket, and has taken exactly N - k when it reports             *)
(* end-of-stream.                                                          *)
(***************************************************************************)
C5_PullsExactlyTheRest ==
    (HasContentLength /\ ReaderLive /\ consumed = 0 /\ k0 < sc.n) =>
        /\ pulled <= sc.n - k0
        /\ (sock_reads > 0 \/ pc = "read") => Len(delivered) >= k0
        /\ (ReadReturned(0) /\ buf_len > 0) => pulled = sc.n - k0

(***************************************************************************)
(* C6: a read call made when total_read = body_limit returns 0 and leaves  *)
(* the buffer (contents and read offset), total_read and the socket as     *)
(* they were.                                                              *)
(***************************************************************************)
C6_ReadAtLimitChangesNothing ==
    [][(pc = "body" /\ total_read = body_limit /\ op' = "read") =>
          /\ ret' = Ok(0)
          /\ pc' = "body"
          /\ req_buf' = req_buf
          /\ rd_off' = rd_off
          /\ total_read' = total_read
          /\ stream' = stream
          /\ sock_reads' = sock_reads]_vars

\* C6 witness: a read with a non-empty caller buffer has returned 0 at the
\* limit while bytes were left in the buffer and on the socket
C6_Witness ==
    /\ ReadReturned(0) /\ op = "read" /\ buf_len > 0
    /\ total_read = body_limit
    /\ body_limit > 0
    /\ req_buf # <<>>
    /\ stream # <<>>

(***************************************************************************)
(* C7: a decode call that returns Incomplete or Malformed leaves the       *)
(* buffer's contents and read offset as they were; only a call that        *)
(* returns Complete advances the read offset.                              *)
(***************************************************************************)
C7_DecodeFailureLeavesBuffer ==
    [][(pc = "conn" /\ op' = "decode") =>
          IF status'.st = "Complete"
          THEN rd_off' > rd_off
          ELSE req_buf' = req_buf /\ rd_off' = rd_off]_vars

\* C7 witness: after an Incomplete result on buffered bytes, more bytes were
\* appended and decode returned Malformed, the buffer still holding them all
C7_Witness ==
    /\ op = "decode" /\ status.st = "Err"
    /\ retried
    /\ rd_off = 0
    /\ req_buf # <<>>
    /\ req_buf = SubSeq(Wire(sc), 1, Received)

(***************************************************************************)
(* C8: when decode returns Complete the read offset has advanced by        *)
(* exactly the length of the frame (empty lines before the request line,   *)
(* request line, headers, terminator): the unread region is what was       *)
(* received behind the terminator, starting with the first body byte.      *)
(***************************************************************************)
C8_CompleteAdvancesByFrame ==
    (op = "decode" /\ status.st = "Complete") =>
        /\ rd_off = FrameLen
        /\ status.len = FrameLen
        /\ req_buf = Slice(Wire(sc), FrameLen + 1, Received)

\* C8 witness: Complete with body bytes already buffered behind the frame
C8_Witness ==
    /\ op = "decode" /\ status.st = "Complete"
    /\ sc.n > 1
    /\ Len(req_buf) > 1
    /\ req_buf[1] = BodyBytes(sc.n)[1]

(***************************************************************************)
(* C9: for a valid frame fed in chunks with decode retried in between,     *)
(* decode returns Incomplete while part of the frame is missing and, once  *)
(* the terminator is buffered, Complete with the method, path, version and *)
(* headers that one decode of the whole frame yields (which are the ones   *)
(* the peer sent).                                                         *)
(***************************************************************************)
ValidFrame == ~sc.bad /\ NumHeaders(sc) <= MAX_HEADERS
OneShot == Parse(Frame(sc), early)
SentHeaders ==
    [i \in 1..sc.nfill |-> FillerHeader] \o ConnHeaders(sc) \o CLHeaders(sc)

C9_ChunkedDecodeEqualsOneShot ==
    (ValidFrame /\ op = "decode") =>
        IF Received < FrameLen
        THEN status.st = "Partial"
        ELSE /\ status = OneShot
             /\ status.st = "Complete"
             /\ status.method = <<"G", "E", "T">>
             /\ status.path = <<"/">>
             /\ status.version = 1
             /\ status.headers = SentHeaders

\* C9 witness: Complete on the 16-header frame after an Incomplete result
C9_Witness ==
    /\ ValidFrame /\ NumHeaders(sc) = MAX_HEADERS
    /\ op = "decode" /\ status.st = "Complete"
    /\ retried

(***************************************************************************)
(* C10: a request with more than MAX_HEADERS headers is never decoded to   *)
(* Complete; once its whole frame is buffered decode returns Malformed     *)
(* with TooManyHeaders.                                                    *)
(***************************************************************************)
C10_TooManyHeadersIsMalformed ==
    (~sc.bad /\ NumHeaders(sc) > MAX_HEADERS) =>
        /\ status.st # "Complete"
        /\ pc \in {"conn", "closed"}
        /\ status.st = "Err" => status.err = "TooManyHeaders"
        /\ (op = "decode" /\ Received >= FrameLen) => status.st = "Err"

\* C10 witness: the whole 17-header frame was buffered when decode failed
C10_Witness ==
    /\ ~sc.bad /\ NumHeaders(sc) = MAX_HEADERS + 1
    /\ op = "decode"
    /\ status.err = "TooManyHeaders"
    /\ Len(req_buf) >= FrameLen

(***************************************************************************)
(* C11: keep_alive() returns true if and only if the request has a header  *)
(* named Connection, case ignored, whose value equals keep-alive, case     *)
(* ignored; it is false for close, for no Connection header and for a      *)
(* value with bytes that are not text.                                     *)
(***************************************************************************)
WantsKeepAlive ==
    \E i \in 1..Len(SentHeaders) :
        /\ EqIgnoreAsciiCase(SentHeaders[i].name, LowerName(ConnectionName))
        /\ IsUtf8(SentHeaders[i].value)
        /\ EqIgnoreAsciiCase(SentHeaders[i].value, KeepAliveValue)

C11_KeepAliveIgnoresCase ==
    op = "keep_alive" => ret = RetBool(WantsKeepAlive)

(***************************************************************************)
(* C12: when a Content-Length header is present and its value is not a     *)
(* non-negative integer, body() ends the request with an error outcome:    *)
(* the handler does not crash and no BodyReader is produced.               *)
(***************************************************************************)
\* the Content-Length value sent is x, -1 or the byte 0xFF
InvalidLength == ~sc.bad /\ sc.cl /\ sc.clv \in {"bad", "neg", "bin"}

C12_InvalidLengthIsRequestError ==
    (InvalidLength /\ op = "body") => pc \notin {"panic", "body"}

(***************************************************************************)
(* C13: when a socket read inside read fails, the call returns the I/O     *)
(* error without another socket read, and total_read is then the number of *)
(* bytes the completed read calls delivered to the caller.                 *)
(***************************************************************************)
C13_FailedReadKeepsCount ==
    op = "stream_err" =>
        /\ ret = RetErr
        /\ pc = "body"
        /\ total_read = Len(delivered)

(***************************************************************************)
(* C14: for a request with Content-Length N, fill_buf exposes and consume  *)
(* discards no byte beyond the first N body bytes, and the bytes returned  *)
(* by read plus the bytes discarded by consume never exceed N.             *)
(***************************************************************************)
\* body bytes taken from the reader so far, by read and by consume
Taken == Len(delivered) + consumed

C14_PeekAndDiscardWithinLimit ==
    (HasContentLength /\ ReaderLive) =>
        /\ Taken <= sc.n
        /\ op = "fill_buf" => Taken + ret.n <= sc.n

(***************************************************************************)
(* C15: json_body of the facade behaves as json_body of the view: it       *)
(* decodes the unread region of the buffer directly, so the call performs  *)
(* no socket read and leaves the buffer and its read offset as they were.  *)
(***************************************************************************)
C15_FacadeJsonBypassesReader ==
    [][op' = "json_body" =>
          /\ req_buf' = req_buf
          /\ rd_off' = rd_off
          /\ stream' = stream
          /\ sock_reads' = sock_reads]_vars

(***************************************************************************)
(* C16: a read call made with total_read < body_limit and a non-empty      *)
(* unread region copies exactly min(requested length, unread length,       *)
(* body_limit - total_read) bytes from the front of the buffer, advances   *)
(* the read offset and total_read by that amount, returns it, and performs *)
(* no socket read.                                                         *)
(***************************************************************************)
C16_BufferedReadCopiesMin ==
    [][(op' = "read" /\ total_read < body_limit /\ req_buf # <<>>) =>
          LET n == Min(buf_len', Min(Len(req_buf), body_limit - total_read))
          IN  /\ ret' = Ok(n)
              /\ delivered' = delivered \o SubSeq(req_buf, 1, n)
              /\ req_buf' = Advance(req_buf, n)
              /\ rd_off' = rd_off + n
              /\ total_read' = total_read + n
              /\ pc' = "body"
              /\ stream' = stream
              /\ sock_reads' = sock_reads]_vars

\* a read that the limit clipped: it returned fewer bytes than asked for and
\* left bytes in the buffer
C16_Witness ==
    /\ op = "read"
    /\ ret.kind = "ok"
    /\ ret.n >= 1
    /\ ret.n < buf_len
    /\ req_buf # <<>>
    /\ total_read = body_limit
    /\ sock_reads = 0

(***************************************************************************)
(* C17: body() sets body_limit to the value of the first header, in wire   *)
(* order, named Content-Length with case ignored, and to usize::MAX when   *)
(* there is none; with that unbounded limit a read on an empty buffer      *)
(* issues a socket read, and the bytes that socket read brings are         *)
(* delivered instead of an end-of-stream.                                  *)
(***************************************************************************)
\* what the first Content-Length header sent declares
DeclaredLimit == IF sc.cl THEN sc.n ELSE UsizeMax

C17_LimitIsFirstContentLength ==
    [][/\ (op' = "body" /\ pc' = "body") => body_limit' = DeclaredLimit
       /\ (op' = "read" /\ body_limit = UsizeMax /\ req_buf = <<>>) =>
              (pc' = "read" /\ ret' = RetPending)
       /\ (op' = "stream_read" /\ body_limit = UsizeMax /\ pc' = "body") =>
              ret' = Ok(Min(buf_len, Len(req_buf) + pulled' - pulled))]_vars

\* body() has made a reader for the request with two Content-Length headers
C17_Witness ==
    /\ sc.cl
    /\ sc.clv = "dup"
    /\ op = "body"
    /\ pc = "body"
    /\ body_limit = sc.n

(***************************************************************************)
(* C18: a read call returns once its socket read has returned; when the    *)
(* peer has closed before the N declared body bytes arrived, so that the   *)
(* socket read returns 0 bytes into the empty buffer, read returns to its  *)
(* caller and does not go back to the socket.                              *)
(***************************************************************************)
C18_ReadReturnsOnClose ==
    [][(pc = "read" /\ stream = <<>> /\ op' = "stream_read") =>
          pc' # "read"]_vars

(***************************************************************************)
(* C19: two requests sent back to back, the first with Content-Length N.   *)
(* Once read calls have drained the reader of the first (a read into a     *)
(* non-empty buffer returns 0), the unread region of the buffer followed   *)
(* by the bytes pending on the socket is exactly the second request, so    *)
(* the next decode yields it.                                              *)
(***************************************************************************)
BackToBack ==
    HasContentLength /\ sc.sent = sc.n /\ sc.tail = Len(NextReq)

C19_HandOverIsSecondRequest ==
    (BackToBack /\ consumed = 0 /\ buf_len > 0 /\ ReadReturned(0)) =>
        /\ req_buf \o stream = NextReq
        /\ Parse(req_buf \o stream, early).st = "Complete"

====
